---- MODULE Spec2Model ----
(***************************************************************************)
(* PDFLecture: the job pipeline (upload -> analysis -> script -> audio).   *)
(* One job record in the job store, the artifacts of that job in the       *)
(* object store, the three trigger topics, and one invocation of each      *)
(* stage function at a time.  A stage invocation is a process: each of its *)
(* steps is one write to the job record or one external call, so that      *)
(* invocations of different stages interleave as the stateless functions   *)
(* do.  Money is counted in units of 1e-7 USD so that the fixed rates of   *)
(* the code are integers.                                                  *)
(* A call of a speech provider (word grouping on a native alignment,       *)
(* chunking and estimated timings) is a second state machine on the        *)
(* variable tts, specified by TtsSpec.                                     *)
(***************************************************************************)
EXTENDS Integers, Sequences, FiniteSets, TLC

\* ------------------------------------------------------------------ bounds
MaxSections == 3        \* sections of an outline returned by the model
MaxInvocations == 3     \* stage invocations on the job, by trigger or by hand

\* ------------------------------------------------------- program constants
InputTokenRate   == 5      \* 0.5e-6 USD per prompt token
OutputTokenRate  == 30     \* 3.0e-6 USD per candidate token
GoogleStudioRate == 1600   \* 160.0e-6 USD per character
GoogleRate       == 300    \* 30.0e-6 USD per character
ElevenLabsRate   == 2000   \* 200.0e-6 USD per character

Stages == {"analysis", "script", "audio"}

StageSeq ==
  <<"uploaded", "analyzing", "analyzed", "generating_script",
    "generating_audio", "completed">>

Topic(stage) ==
  CASE stage = "analysis" -> "document-analysis"
    [] stage = "script"   -> "script-generation"
    [] stage = "audio"    -> "audio-generation"

Topics == {Topic(s) : s \in Stages}

\* ------------------------------------------------ external responses (inputs)
\* usage_metadata of a model reply: <<prompt tokens, candidate tokens>>
AnalysisUsages == {<<4, 2>>}
Usages == {<<2, 1>>}
\* length of the spoken text of a model reply (0: the empty string; 250:
\* longer than the excerpt handed on to the next section)
TextLens == {0, 250}
\* voice of the agent get_agent resolves for a job created by upload_pdf: the
\* job document has no agent field, so it is the built-in prof-classics-001
\* (provider google, voice en-US-Journey-D)
DefaultVoice == "google"

TokenCost(usage) == usage[1] * InputTokenRate + usage[2] * OutputTokenRate

VARIABLES
  job,      \* the job document of the job store
  store,    \* the objects of the job in the object store
  queue,    \* messages in flight on each trigger topic
  up,       \* upload_pdf: position and HTTP response
  an,       \* analyze_document: position and locals
  sc,       \* generate_script: position and locals
  au,       \* generate_audio: position and locals
  invocations, \* history: number of stage invocations on the existing job
  costWriter,  \* history: the stage that wrote the job's total cost last
  reply,    \* how the step just taken ended an invocation for an unknown job
  tts,      \* one call of a speech provider: its input, position and result
  gemini,   \* one call of analyze_document_with_gemini: the same
  pricing,  \* the costing of one synthesized section: its input and result
  agents    \* the documents of the Firestore collection 'agents'

vars ==
  <<job, store, queue, up, an, sc, au, invocations, costWriter, reply, tts,
    gemini, pricing, agents>>

\* the variables of the pipeline
pipeline == <<job, store, queue, up, an, sc, au, invocations, costWriter, reply>>

\* a sub-record as create_job_record writes it
PendingSub ==
  [status |-> "pending", path |-> FALSE, section_count |-> 0, cost |-> 0,
   sections |-> <<>>]

NoJob ==
  [exists |-> FALSE, status |-> "none", step |-> "none", pct |-> 0,
   msg |-> "none", pdf |-> "none", analysis |-> PendingSub,
   script |-> PendingSub, audio |-> PendingSub, total |-> 0]

\* a creation that leaves the progress at 0
create_job_record_NoProgress ==
  [exists |-> TRUE, status |-> "uploaded", step |-> "uploaded", pct |-> 0,
   msg |-> "uploaded", pdf |-> "stored", analysis |-> PendingSub,
   script |-> PendingSub, audio |-> PendingSub, total |-> 0]

\* upload_handler.create_job_record: the document set at creation
create_job_record ==
  [exists |-> TRUE, status |-> "uploaded", step |-> "uploaded", pct |-> 10,
   msg |-> "uploaded", pdf |-> "stored", analysis |-> PendingSub,
   script |-> PendingSub, audio |-> PendingSub, total |-> 0]

NoStore ==
  [pdf |-> FALSE,
   analysis |-> [present |-> FALSE, n |-> 0],
   script |-> [present |-> FALSE, sections |-> <<>>]]

IdleAn == [pc |-> "idle"]
IdleSc ==
  [pc |-> "idle", n |-> 0, i |-> 0, full |-> <<>>, prompts |-> <<>>,
   cost |-> 0, pct0 |-> 0]
IdleAu ==
  [pc |-> "idle", path |-> FALSE, sections |-> <<>>, i |-> 0, voice |-> "google",
   results |-> <<>>, cost |-> 0, pct0 |-> 0]

\* no invocation for an unknown job ended in the step just taken
NoReply == [stage |-> "none", result |-> "none"]

\* no request received by upload_pdf
NoRequest == [file |-> FALSE, filename |-> <<"">>, size |-> 0, magic |-> FALSE]

IdleUp == [pc |-> "idle", resp |-> "none", req |-> NoRequest]

\* no call of a speech provider
NoTts == [provider |-> "none", pc |-> "none"]

\* the pipeline before the upload
InitPipeline ==
  /\ job = NoJob
  /\ store = NoStore
  /\ queue = [t \in Topics |-> 0]
  /\ up = IdleUp
  /\ an = IdleAn
  /\ sc = IdleSc
  /\ au = IdleAu
  /\ invocations = 0
  /\ costWriter = "none"
  /\ reply = NoReply

\* no call of analyze_document_with_gemini
NoGemini == [pc |-> "none"]

\* voice_id of an agent configuration
VoiceIds ==
  {<<"en", "US", "Journey", "D">>, <<"en", "US", "Journey", "F">>,
   <<"en", "US", "Neural2", "J">>, <<"en", "US", "Studio", "M">>,
   <<"en", "GB", "Neural2", "D">>, <<"custom">>}

\* ids of agents: the built-in ones and one that is not built in
AgentIds ==
  {"prof-classics-001", "dr-straightforward-001", "coach-motivator-001",
   "lit-reviewer-001", "custom-001"}

NoPricing == [pc |-> "none"]
NoAgents == [id \in AgentIds |-> "none"]

Init ==
  /\ InitPipeline
  /\ tts = NoTts
  /\ gemini = NoGemini
  /\ pricing = NoPricing
  /\ agents = NoAgents

\* a publish that returns without the message reaching the topic
Publish_Lost(topic) == queue' = queue

\* client.publish(topic, message) followed by future.result()
Publish(topic) == queue' = [queue EXCEPT ![topic] = @ + 1]

\* --------------------------------------------------------------- upload_pdf
MAX_FILE_SIZE_MB == 50
MAX_FILE_SIZE_BYTES == MAX_FILE_SIZE_MB * 1024 * 1024
ALLOWED_EXTENSIONS == {"pdf"}

\* a filename is the sequence of its parts between dots: <<"">> is the empty
\* name, <<"lecture", "pdf">> is lecture.pdf
FileNames ==
  {<<"">>, <<"pdf">>, <<"lecture", "pdf">>, <<"lecture", "PDF">>,
   <<"lecture", "txt">>}

\* str.lower() on the extensions of FileNames
lower(ext) == IF ext = "PDF" THEN "pdf" ELSE ext

\* the multipart request: whether it has a 'file' field, the field's
\* filename, the number of bytes of its content and whether the content
\* starts with %PDF
Requests ==
  [file : BOOLEAN, filename : FileNames,
   size : {4, MAX_FILE_SIZE_BYTES, MAX_FILE_SIZE_BYTES + 1}, magic : BOOLEAN]

allowed_file(filename) ==
  Len(filename) > 1 /\ lower(filename[Len(filename)]) \in ALLOWED_EXTENSIONS

\* a validation that accepts any content
validate_AnyContent(req) ==
  /\ req.file
  /\ req.filename # <<"">>
  /\ allowed_file(req.filename)
  /\ ~(req.size > MAX_FILE_SIZE_BYTES)

\* the checks of upload_pdf that answer 400, in the order of the code
validate(req) ==
  /\ req.file
  /\ req.filename # <<"">>
  /\ allowed_file(req.filename)
  /\ ~(req.size > MAX_FILE_SIZE_BYTES)
  /\ req.magic

\* a request that fails a validation is answered 400
UploadReject ==
  /\ up.pc = "idle"
  /\ \E req \in Requests :
       /\ ~validate(req)
       /\ up' = [up EXCEPT !.resp = "400", !.req = req]
  /\ UNCHANGED <<job, store, queue, an, sc, au, invocations, costWriter, tts, gemini, pricing, agents>>
  /\ reply' = NoReply

\* a valid request: the document is uploaded to the object store; a failed
\* upload raises into the except clause, which answers 500
UploadStore(ok) ==
  /\ up.pc = "idle"
  /\ \E req \in Requests :
       /\ validate(req)
       /\ IF ok
            THEN /\ store' = [store EXCEPT !.pdf = TRUE]
                 /\ up' = [pc |-> "create", resp |-> "none", req |-> req]
            ELSE /\ up' = [up EXCEPT !.resp = "500", !.req = req]
                 /\ UNCHANGED store
  /\ UNCHANGED <<job, queue, an, sc, au, invocations, costWriter, tts, gemini, pricing, agents>>
  /\ reply' = NoReply

\* create_job_record; the request is not used after it
UploadCreate ==
  /\ up.pc = "create"
  /\ job' = create_job_record
  /\ up' = [up EXCEPT !.pc = "trigger", !.req = NoRequest]
  /\ UNCHANGED <<store, queue, an, sc, au, invocations, costWriter, tts, gemini, pricing, agents>>
  /\ reply' = NoReply

\* trigger_document_analysis (a failed publish is only logged), then the
\* response 200 with the job id and status processing
UploadTrigger(ok) ==
  /\ up.pc = "trigger"
  /\ IF ok THEN Publish("document-analysis") ELSE UNCHANGED queue
  /\ up' = [up EXCEPT !.pc = "done", !.resp = "200 processing"]
  /\ UNCHANGED <<job, store, an, sc, au, invocations, costWriter, tts, gemini, pricing, agents>>
  /\ reply' = NoReply

\* ------------------------------------------------------ invocation of a stage
\* a stage function is invoked by a message of its topic ("trigger") or by
\* hand, through its HTTP entry point or a message published by an operator
Take(stage, src) ==
  /\ IF src = "trigger"
       THEN /\ queue[Topic(stage)] > 0
            /\ queue' = [queue EXCEPT ![Topic(stage)] = @ - 1]
       ELSE UNCHANGED queue
  /\ IF job.exists
       THEN /\ invocations < MaxInvocations
            /\ invocations' = invocations + 1
       ELSE UNCHANGED invocations

Sources == {"trigger", "manual"}


\* ---------------------------------------------------------- analyze_document
\* analyzer.update_job_status: the update written when analysis ends
update_job_status_failure(j) ==
  [j EXCEPT !.status = "failed",
            !.analysis = [PendingSub EXCEPT !.status = "failed"],
            !.step = "failed", !.pct = 0, !.msg = "analysis_failed"]

\* an update that advances the status without the analysis sub-record
update_job_status_StatusOnly(j, analysis, success) ==
  IF success
    THEN [j EXCEPT !.status = "analyzed", !.total = analysis.cost,
                   !.step = "analyzed", !.pct = 30, !.msg = "analysis_done"]
    ELSE update_job_status_failure(j)

update_job_status(j, analysis, success) ==
  IF success
    THEN [j EXCEPT !.status = "analyzed",
                   !.analysis = [PendingSub EXCEPT !.status = "completed",
                                                   !.path = TRUE,
                                                   !.section_count = analysis.n,
                                                   !.cost = analysis.cost],
                   !.total = analysis.cost,
                   !.step = "analyzed", !.pct = 30, !.msg = "analysis_done"]
    ELSE update_job_status_failure(j)

\* the job document is read; for an unknown job the function logs and
\* returns, an existing one is moved to analyzing
AnStart(src) ==
  /\ an.pc = "idle"
  /\ Take("analysis", src)
  /\ IF job.exists
       THEN /\ job' = [job EXCEPT !.status = "analyzing", !.step = "analyzing",
                                  !.pct = 20, !.msg = "analyzing"]
            /\ an' = [IdleAn EXCEPT !.pc = "work"]
            /\ reply' = NoReply
       ELSE /\ reply' = [stage |-> "analysis", result |-> "returned"]
            /\ UNCHANGED <<job, an>>
  /\ UNCHANGED <<store, up, sc, au, costWriter, tts, gemini, pricing, agents>>

\* download of the document, the model's analysis and the upload of
\* analysis.json succeed, and update_job_status records the success
AnWorkOk ==
  /\ an.pc = "work"
  /\ \E n \in 0..MaxSections, u \in AnalysisUsages :
       LET analysis == [n |-> n, cost |-> TokenCost(u)]
       IN /\ store' = [store EXCEPT !.analysis = [present |-> TRUE, n |-> n]]
          /\ job' = update_job_status(job, analysis, TRUE)
  /\ an' = [an EXCEPT !.pc = "publish"]
  /\ costWriter' = "analysis"
  /\ UNCHANGED <<queue, up, sc, au, invocations, tts, gemini, pricing, agents>>
  /\ reply' = NoReply

\* one of them raises: the except clause records the failure
AnWorkFail ==
  /\ an.pc = "work"
  /\ job' = update_job_status(job, <<>>, FALSE)
  /\ an' = IdleAn
  /\ UNCHANGED <<store, queue, up, sc, au, invocations, costWriter, tts, gemini, pricing, agents>>
  /\ reply' = NoReply

\* trigger_script_generation: a failed publish is caught and logged
AnPublish(ok) ==
  /\ an.pc = "publish"
  /\ IF ok THEN Publish("script-generation") ELSE UNCHANGED queue
  /\ an' = IdleAn
  /\ UNCHANGED <<job, store, up, sc, au, invocations, costWriter, tts, gemini, pricing, agents>>
  /\ reply' = NoReply

\* ----------------------------------------------------------- generate_script
\* progress written before section i+1 of total (i counted from 0)
ScriptProgress(i, total) == 40 + ((i * 20) \div total)

\* an except clause that only writes the message
ScriptFailure_MessageOnly(j) == [j EXCEPT !.msg = "script_failed"]

\* an except clause that also records a location for what was generated
ScriptFailure_PartialScript(j) ==
  [j EXCEPT !.status = "failed", !.msg = "script_failed", !.script.path = TRUE]

\* the except clause of generate_script
ScriptFailure(j) == [j EXCEPT !.status = "failed", !.msg = "script_failed"]

ScFail ==
  /\ job' = ScriptFailure(job)
  /\ sc' = IdleSc

\* the first statement with an effect is the status update; on an unknown
\* job it raises NotFound, and so does the update of the except clause, so
\* that the exception leaves the function
ScStart(src) ==
  /\ sc.pc = "idle"
  /\ Take("script", src)
  /\ IF job.exists
       THEN /\ job' = [job EXCEPT !.status = "generating_script",
                                  !.step = "generating_script",
                                  !.pct = 40, !.msg = "writing"]
            /\ sc' = [IdleSc EXCEPT !.pc = "load", !.pct0 = job.pct]
            /\ reply' = NoReply
       ELSE /\ reply' = [stage |-> "script", result |-> "NotFound"]
            /\ UNCHANGED <<job, sc>>
  /\ UNCHANGED <<store, up, an, au, costWriter, tts, gemini, pricing, agents>>

\* the job document is read; without analysis.storage_path the stage raises,
\* otherwise analysis.json is downloaded and its sections are taken
ScLoad(ok) ==
  /\ sc.pc = "load"
  /\ IF job.analysis.path /\ ok
       THEN /\ sc' = [sc EXCEPT !.pc = IF store.analysis.n = 0 THEN "save" ELSE "section",
                                !.n = store.analysis.n, !.pct0 = 0]
            /\ UNCHANGED job
       ELSE ScFail
  /\ UNCHANGED <<store, queue, up, an, au, invocations, costWriter, tts, gemini, pricing, agents>>
  /\ reply' = NoReply

\* number of trailing characters of a section handed on to the next one
ContextChars == 200

\* the whole text handed on
last_chars_All(len) == len

\* len(script_text[-200:])
last_chars(len) == IF len < ContextChars THEN len ELSE ContextChars

\* prev_context when section i+1 is generated (i counted from 0): "" for the
\* first section, then the tail of the text generated for section i
prev_context(full, i) == IF i = 0 THEN 0 ELSE last_chars(full[i].text)

\* one turn of the loop: the progress update, then the model is asked with
\* the outline section and prev_context, and its reply is appended under the
\* title of the outline section (its position in the outline) with its cost
ScSectionOk ==
  /\ sc.pc = "section"
  /\ \E len \in TextLens, u \in Usages :
       sc' = [sc EXCEPT !.i = @ + 1,
                        !.full = Append(@, [title |-> sc.i + 1, text |-> len,
                                            cost |-> TokenCost(u)]),
                        !.prompts = Append(@, prev_context(sc.full, sc.i)),
                        !.cost = @ + TokenCost(u),
                        !.pc = IF sc.i + 1 = sc.n THEN "save" ELSE "section"]
  /\ job' = [job EXCEPT !.pct = ScriptProgress(sc.i, sc.n), !.msg = "writing_section"]
  /\ UNCHANGED <<store, queue, up, an, au, invocations, costWriter, tts, gemini, pricing, agents>>
  /\ reply' = NoReply

\* the model call of the section raises after the progress update
ScSectionFail ==
  /\ sc.pc = "section"
  /\ job' = ScriptFailure([job EXCEPT !.pct = ScriptProgress(sc.i, sc.n)])
  /\ sc' = IdleSc
  /\ UNCHANGED <<store, queue, up, an, au, invocations, costWriter, tts, gemini, pricing, agents>>
  /\ reply' = NoReply

\* a record that sets the total instead of incrementing it
ScriptRecord_SetsTotal(j, n, cost) ==
  [j EXCEPT !.script = [PendingSub EXCEPT !.status = "none", !.path = TRUE,
                                          !.section_count = n, !.cost = cost],
            !.total = cost,
            !.status = "generating_audio", !.step = "generating_audio",
            !.pct = 60, !.msg = "script_done"]

\* the update that records the script: the script map is replaced by one
\* without a status key, the total is incremented
ScriptRecord(j, n, cost) ==
  [j EXCEPT !.script = [PendingSub EXCEPT !.status = "none", !.path = TRUE,
                                          !.section_count = n, !.cost = cost],
            !.total = @ + cost,
            !.status = "generating_audio", !.step = "generating_audio",
            !.pct = 60, !.msg = "script_done"]

\* script.json is uploaded and the job update records it; a failed upload
\* raises into the except clause
ScSave(ok) ==
  /\ sc.pc = "save"
  /\ IF ok
       THEN /\ store' = [store EXCEPT !.script = [present |-> TRUE, sections |-> sc.full]]
            /\ job' = ScriptRecord(job, Len(sc.full), sc.cost)
            /\ sc' = [sc EXCEPT !.pc = "publish"]
            /\ costWriter' = "script"
       ELSE /\ ScFail
            /\ UNCHANGED <<store, costWriter>>
  /\ UNCHANGED <<queue, up, an, au, invocations, tts, gemini, pricing, agents>>
  /\ reply' = NoReply

\* trigger_audio_generation has no try: a failed publish raises into the
\* except clause of generate_script
ScPublish(ok) ==
  /\ sc.pc = "publish"
  /\ IF ok
       THEN /\ Publish("audio-generation")
            /\ sc' = IdleSc
            /\ UNCHANGED job
       ELSE /\ ScFail
            /\ UNCHANGED queue
  /\ UNCHANGED <<store, up, an, au, invocations, costWriter, tts, gemini, pricing, agents>>
  /\ reply' = NoReply


\* ------------------------------------------------------------ generate_audio
\* cost of a synthesized section from its character count
SectionAudioCost(chars, voice) ==
  IF voice = "google-Studio" THEN chars * GoogleStudioRate
  ELSE IF voice = "google" THEN chars * GoogleRate
  ELSE chars * ElevenLabsRate

\* an id taken from the loop index as it is
section_id_FromZero(i) == i

\* section.get('section_id', i+1): the sections of script.json carry no
\* section_id, so it is the loop index (from 0) plus one
section_id(i) == i + 1

\* progress written after section i of total (i counted from 1)
AudioProgress(i, total) == 70 + ((i * 25) \div total)

\* an except clause that also marks the audio sub-record completed
AudioFailure_MarksCompleted(j) ==
  [j EXCEPT !.status = "failed", !.msg = "audio_failed",
            !.audio.status = "completed"]

\* the except clause of generate_audio
AudioFailure(j) == [j EXCEPT !.status = "failed", !.msg = "audio_failed"]

AuFail ==
  /\ job' = AudioFailure(job)
  /\ au' = IdleAu

\* the job document is read (for an unknown job the function logs and
\* returns) and kept as job_data, then the status update is written
AuStart(src) ==
  /\ au.pc = "idle"
  /\ Take("audio", src)
  /\ IF job.exists
       THEN /\ job' = [job EXCEPT !.status = "generating_audio",
                                  !.step = "generating_audio",
                                  !.pct = 70, !.msg = "synthesizing"]
            /\ au' = [IdleAu EXCEPT !.pc = "load", !.path = job.script.path,
                                    !.pct0 = job.pct]
            /\ reply' = NoReply
       ELSE /\ reply' = [stage |-> "audio", result |-> "returned"]
            /\ UNCHANGED <<job, au>>
  /\ UNCHANGED <<store, up, an, sc, costWriter, tts, gemini, pricing, agents>>

\* without script.storage_path in job_data the stage raises, otherwise
\* script.json is downloaded and the agent's voice is resolved
AuLoad(ok) ==
  /\ au.pc = "load"
  /\ IF au.path /\ ok
       THEN /\ au' = [au EXCEPT !.pc = "section", !.sections = store.script.sections,
                                 !.voice = DefaultVoice, !.pct0 = 0]
            /\ UNCHANGED job
       ELSE AuFail
  /\ UNCHANGED <<store, queue, up, an, sc, invocations, costWriter, tts, gemini, pricing, agents>>
  /\ reply' = NoReply

\* one turn of the loop on a section without text: it is skipped
AuSectionSkip ==
  /\ au.pc = "section"
  /\ au.i < Len(au.sections)
  /\ au.sections[au.i + 1].text = 0
  /\ au' = [au EXCEPT !.i = @ + 1]
  /\ UNCHANGED <<job, store, queue, up, an, sc, invocations, costWriter, tts, gemini, pricing, agents>>
  /\ reply' = NoReply

\* one turn of the loop: the section is synthesized, audio and timestamps are
\* uploaded, the result is appended and the progress update is written
AuSectionOk ==
  /\ au.pc = "section"
  /\ au.i < Len(au.sections)
  /\ au.sections[au.i + 1].text > 0
  /\ LET chars == au.sections[au.i + 1].text
         section_audio_cost == SectionAudioCost(chars, au.voice)
     IN /\ au' = [au EXCEPT !.i = @ + 1,
                            !.results = Append(@, [section_id |-> section_id(au.i),
                                                   characters |-> chars,
                                                   cost |-> section_audio_cost]),
                            !.cost = @ + section_audio_cost]
        /\ job' = [job EXCEPT !.pct = AudioProgress(au.i + 1, Len(au.sections)),
                              !.msg = "synthesized_section"]
  /\ UNCHANGED <<store, queue, up, an, sc, invocations, costWriter, tts, gemini, pricing, agents>>
  /\ reply' = NoReply

\* the provider or an upload raises for the section
AuSectionFail ==
  /\ au.pc = "section"
  /\ au.i < Len(au.sections)
  /\ au.sections[au.i + 1].text > 0
  /\ AuFail
  /\ UNCHANGED <<store, queue, up, an, sc, invocations, costWriter, tts, gemini, pricing, agents>>
  /\ reply' = NoReply

\* a final update that writes the whole document anew
AudioRecord_WholeDocument(j, results, cost) ==
  [create_job_record EXCEPT
     !.status = "completed",
     !.audio = [PendingSub EXCEPT !.status = "completed",
                                  !.sections = results, !.cost = cost],
     !.total = j.total + cost,
     !.step = "completed", !.pct = 100, !.msg = "complete"]

\* the final update
AudioRecord(j, results, cost) ==
  [j EXCEPT !.status = "completed",
            !.audio = [PendingSub EXCEPT !.status = "completed",
                                         !.sections = results, !.cost = cost],
            !.total = @ + cost,
            !.step = "completed", !.pct = 100, !.msg = "complete"]

AuFinish ==
  /\ au.pc = "section"
  /\ au.i = Len(au.sections)
  /\ job' = AudioRecord(job, au.results, au.cost)
  /\ au' = IdleAu
  /\ costWriter' = "audio"
  /\ UNCHANGED <<store, queue, up, an, sc, invocations, tts, gemini, pricing, agents>>
  /\ reply' = NoReply

\* ------------------------------------------------------------ specification
Next ==
  \/ UploadReject
  \/ \E ok \in BOOLEAN : UploadStore(ok)
  \/ UploadCreate
  \/ \E ok \in BOOLEAN : UploadTrigger(ok)
  \/ \E src \in Sources : AnStart(src)
  \/ AnWorkOk
  \/ AnWorkFail
  \/ \E ok \in BOOLEAN : AnPublish(ok)
  \/ \E src \in Sources : ScStart(src)
  \/ \E ok \in BOOLEAN : ScLoad(ok)
  \/ ScSectionOk
  \/ ScSectionFail
  \/ \E ok \in BOOLEAN : ScSave(ok)
  \/ \E ok \in BOOLEAN : ScPublish(ok)
  \/ \E src \in Sources : AuStart(src)
  \/ \E ok \in BOOLEAN : AuLoad(ok)
  \/ AuSectionSkip
  \/ AuSectionOk
  \/ AuSectionFail
  \/ AuFinish

Spec == Init /\ [][Next]_vars


\* the pipeline when every external call succeeds and stages are invoked by
\* the triggers only; a published message is delivered and an invoked
\* function runs to its end
NextOK ==
  \/ UploadStore(TRUE)
  \/ UploadCreate
  \/ UploadTrigger(TRUE)
  \/ AnStart("trigger")
  \/ AnWorkOk
  \/ AnPublish(TRUE)
  \/ ScStart("trigger")
  \/ ScLoad(TRUE)
  \/ ScSectionOk
  \/ ScSave(TRUE)
  \/ ScPublish(TRUE)
  \/ AuStart("trigger")
  \/ AuLoad(TRUE)
  \/ AuSectionSkip
  \/ AuSectionOk
  \/ AuFinish

LiveSpec == Init /\ [][NextOK]_vars /\ WF_vars(NextOK)

\* ------------------------------------------------------------ get_job_status
\* a query that issues the script URL for every script that has a location
get_job_status_ByLocation(j) ==
  IF ~j.exists
    THEN [code |-> 404, scriptUrl |-> FALSE, audio |-> FALSE, sections |-> <<>>]
    ELSE [code |-> 200,
          scriptUrl |-> j.script.path,
          audio |-> j.audio.status = "completed",
          sections |-> IF j.audio.status = "completed"
                         THEN [k \in 1..Len(j.audio.sections) |->
                                 j.audio.sections[k].section_id]
                         ELSE <<>>]

\* the response of status_handler.get_job_status for the job document j:
\* whether it has the key scriptUrl, whether it has the key audio, and the
\* section ids of the playable sections
get_job_status(j) ==
  IF ~j.exists
    THEN [code |-> 404, scriptUrl |-> FALSE, audio |-> FALSE, sections |-> <<>>]
    ELSE [code |-> 200,
          scriptUrl |-> j.script.status = "completed",
          audio |-> j.audio.status = "completed",
          sections |-> IF j.audio.status = "completed"
                         THEN [k \in 1..Len(j.audio.sections) |->
                                 j.audio.sections[k].section_id]
                         ELSE <<>>]

\* ---------------------------------------------------------- speech providers
\* One call of TTSProvider.generate_audio.  Times are in milliseconds.
MaxChars == 4          \* characters of an alignment returned by ElevenLabs
MaxTokens == 5         \* tokens of a text given to the Google provider
LongWord == 2400       \* characters of the long token of a text

\* characters of an alignment (" " is the only one that str.strip() empties)
Alphabet == {"a", "b", " "}
HiThere == <<"h", "i", " ", "t", "h", "e", "r", "e">>

\* how the provider times the characters: every character is spoken after
\* the one before it, back to back, with silence in between, or in no time
TimeShapes == {"contiguous", "gapped", "instant"}

CharStart(i, shape) ==
  CASE shape = "contiguous" -> 200 * (i - 1)
    [] shape = "gapped"     -> 300 * (i - 1)
    [] shape = "instant"    -> 100 * (i - 1)

CharEnd(i, shape) ==
  CASE shape = "contiguous" -> 200 * i
    [] shape = "gapped"     -> 300 * (i - 1) + 200
    [] shape = "instant"    -> 100 * (i - 1)

SeqsUpTo(S, n) == UNION {[1..k -> S] : k \in 0..n}

\* the alignment of a response of the with-timestamps endpoint
Alignments ==
  {[characters |-> c,
    character_start_times_seconds |-> [i \in 1..Len(c) |-> CharStart(i, sh)],
    character_end_times_seconds |-> [i \in 1..Len(c) |-> CharEnd(i, sh)]] :
     c \in SeqsUpTo(Alphabet, MaxChars) \cup {HiThere}, sh \in TimeShapes}

\* a test that takes no character for a space
is_space_Never(char) == FALSE

\* not char.strip()
is_space(char) == char = " "

\* a word closed with the end time of the character that closes it
WordEnd_OfBoundary(ends, k) == ends[k]

\* the end time of a word closed by the character at loop index i = k - 1:
\* ends[i-1], the end time of the character before it
WordEnd(ends, k) == ends[k - 1]

\* the end time of the word still open after the loop:
\* ends[len(current_word)-1] if ends else 0.0
FlushEnd(ends, current_word) ==
  IF ends # <<>> THEN ends[Len(current_word)] ELSE 0

\* the loop of ElevenLabsProvider.generate_audio over the characters; k is
\* the loop index i plus one
RECURSIVE GroupLoop(_, _, _, _, _, _, _)
GroupLoop(chars, starts, ends, k, current_word, word_start, timestamps) ==
  IF k > Len(chars) \/ k > Len(starts) \/ k > Len(ends)
    THEN [timestamps |-> timestamps, current_word |-> current_word,
          word_start |-> word_start]
  ELSE IF ~is_space(chars[k])
    THEN GroupLoop(chars, starts, ends, k + 1, Append(current_word, chars[k]),
                   IF current_word = <<>> THEN starts[k] ELSE word_start,
                   timestamps)
  ELSE IF current_word # <<>>
    THEN GroupLoop(chars, starts, ends, k + 1, <<>>, word_start,
                   Append(timestamps, [word |-> current_word,
                                       start |-> word_start,
                                       end |-> WordEnd(ends, k)]))
  ELSE GroupLoop(chars, starts, ends, k + 1, current_word, word_start,
                 timestamps)

\* the timestamps of ElevenLabsProvider.generate_audio: the loop, then the
\* last word is closed with ends[len(current_word)-1]
ElevenLabsTimestamps(alignment) ==
  LET chars  == alignment.characters
      starts == alignment.character_start_times_seconds
      ends   == alignment.character_end_times_seconds
      r      == GroupLoop(chars, starts, ends, 1, <<>>, 0, <<>>)
  IN IF r.current_word # <<>>
       THEN Append(r.timestamps,
                   [word |-> r.current_word, start |-> r.word_start,
                    end |-> FlushEnd(ends, r.current_word)])
       ELSE r.timestamps

\* the request is answered: status 200 gives the result, any other raises
ElevenLabsGenerate(ok) ==
  /\ tts.provider = "elevenlabs" /\ tts.pc = "request"
  /\ IF ok
       THEN LET ends == tts.alignment.character_end_times_seconds
            IN tts' = [tts EXCEPT !.pc = "done",
                         !.timestamps = ElevenLabsTimestamps(tts.alignment),
                         !.duration = IF ends # <<>> THEN ends[Len(ends)] ELSE 0]
       ELSE tts' = [tts EXCEPT !.pc = "raised"]
  /\ UNCHANGED <<pipeline, gemini, pricing, agents>>

\* a text is a sequence of tokens: "w" a letter, "L" a run of LongWord
\* letters, "." a full stop, " " a space, "*" an asterisk, "|" a bar
TextTokens == {"w", "L", ".", " ", "*", "|"}
Terminators == {".", "?", "!"}
\* two short sentences and a long one: more than LIMIT characters in all
TwoSentences == <<"w", ".", " ", "w", ".", " ", "L", "L">>

Texts == SeqsUpTo(TextTokens, MaxTokens) \cup {TwoSentences}

\* speaking_rate of the voice, in percent
SpeakingRates == {100, 125}

\* chunk ceiling and assumed words per minute of GoogleTTSProvider
LIMIT == 4500
WordsPerMinute == 150

RECURSIVE TextLen(_)
\* len(text)
TextLen(text) ==
  IF text = <<>> THEN 0
  ELSE (IF Head(text) = "L" THEN LongWord ELSE 1) + TextLen(Tail(text))

\* TTSProvider.clean_text: asterisks and hashes are removed
clean_text(text) == SelectSeq(text, LAMBDA t : t \notin {"*", "#"})

\* text.replace('. ', '.|').replace('? ', '?|').replace('! ', '!|').split('|'):
\* a terminator followed by a space ends a sentence and the space is dropped;
\* a bar of the text ends a sentence as well and is dropped
RECURSIVE SplitSentences(_, _, _, _)
SplitSentences(text, k, s, sentences) ==
  IF k > Len(text) THEN Append(sentences, s)
  ELSE IF text[k] \in Terminators /\ k < Len(text) /\ text[k + 1] = " "
    THEN SplitSentences(text, k + 2, <<>>, Append(sentences, Append(s, text[k])))
  ELSE IF text[k] = "|"
    THEN SplitSentences(text, k + 1, <<>>, Append(sentences, s))
  ELSE SplitSentences(text, k + 1, Append(s, text[k]), sentences)

\* the loop over the sentences
RECURSIVE ChunkLoop(_, _, _, _)
ChunkLoop(sentences, k, current_chunk, chunks) ==
  IF k > Len(sentences)
    THEN IF current_chunk # <<>> THEN Append(chunks, current_chunk) ELSE chunks
  ELSE IF TextLen(current_chunk) + TextLen(sentences[k]) < LIMIT
    THEN ChunkLoop(sentences, k + 1, current_chunk \o sentences[k], chunks)
  ELSE ChunkLoop(sentences, k + 1, sentences[k],
                 IF current_chunk # <<>> THEN Append(chunks, current_chunk)
                 ELSE chunks)

\* the chunking logic of GoogleTTSProvider.generate_audio
Chunks(text) ==
  IF TextLen(text) <= LIMIT THEN <<text>>
  ELSE ChunkLoop(SplitSentences(text, 1, <<>>, <<>>), 1, <<>>, <<>>)

\* str.split(): the maximal runs of tokens that are not spaces
RECURSIVE SplitWords(_, _, _, _)
SplitWords(text, k, w, words) ==
  IF k > Len(text) THEN IF w # <<>> THEN Append(words, w) ELSE words
  ELSE IF text[k] = " "
    THEN SplitWords(text, k + 1, <<>>, IF w # <<>> THEN Append(words, w) ELSE words)
  ELSE SplitWords(text, k + 1, Append(w, text[k]), words)

split(text) == SplitWords(text, 1, <<>>, <<>>)

\* an estimate that takes the words per minute for words per second
duration_est_PerSecond(words, rate) ==
  (Len(words) * 1000 * 100) \div (WordsPerMinute * rate)

\* duration_est = len(words) / (wpm/60) with wpm = 150 * speaking_rate
duration_est(words, rate) ==
  (Len(words) * 60 * 1000 * 100) \div (WordsPerMinute * rate)

avg_word_dur(words, rate) ==
  IF words # <<>> THEN duration_est(words, rate) \div Len(words) ELSE 0

\* timestamps that start every chunk at 0
ChunkTimestamps_FromZero(words, rate, offset) ==
  [k \in 1..Len(words) |->
     [word |-> words[k],
      start |-> (k - 1) * avg_word_dur(words, rate),
      end |-> k * avg_word_dur(words, rate)]]

\* the estimated timestamps of a chunk that starts at offset
ChunkTimestamps(words, rate, offset) ==
  [k \in 1..Len(words) |->
     [word |-> words[k],
      start |-> offset + (k - 1) * avg_word_dur(words, rate),
      end |-> offset + k * avg_word_dur(words, rate)]]

\* the text is cleaned and cut into chunks
GoogleChunk ==
  /\ tts.provider = "google" /\ tts.pc = "request"
  /\ tts' = [tts EXCEPT !.pc = "chunks", !.chunks = Chunks(clean_text(tts.text))]
  /\ UNCHANGED <<pipeline, gemini, pricing, agents>>

\* one turn of the loop on a chunk of spaces only: it is skipped
GoogleChunkSkip ==
  /\ tts.provider = "google" /\ tts.pc = "chunks"
  /\ tts.k < Len(tts.chunks)
  /\ split(tts.chunks[tts.k + 1]) = <<>>
  /\ tts' = [tts EXCEPT !.k = @ + 1]
  /\ UNCHANGED <<pipeline, gemini, pricing, agents>>

\* one turn of the loop: the chunk is synthesized and its timestamps are
\* estimated; a failed synthesize_speech is raised again
GoogleSynthesize(ok) ==
  /\ tts.provider = "google" /\ tts.pc = "chunks"
  /\ tts.k < Len(tts.chunks)
  /\ split(tts.chunks[tts.k + 1]) # <<>>
  /\ IF ok
       THEN LET words == split(tts.chunks[tts.k + 1])
            IN tts' = [tts EXCEPT
                         !.k = @ + 1,
                         !.timestamps = @ \o ChunkTimestamps(words, tts.rate,
                                                             tts.offset),
                         !.offset = @ + duration_est(words, tts.rate)]
       ELSE tts' = [tts EXCEPT !.pc = "raised"]
  /\ UNCHANGED <<pipeline, gemini, pricing, agents>>

\* the result is returned with the accumulated offset as its duration
GoogleReturn ==
  /\ tts.provider = "google" /\ tts.pc = "chunks"
  /\ tts.k = Len(tts.chunks)
  /\ tts' = [tts EXCEPT !.pc = "done", !.duration = tts.offset]
  /\ UNCHANGED <<pipeline, gemini, pricing, agents>>

\* the calls a provider can receive
TtsRequests ==
  {[provider |-> "elevenlabs", pc |-> "request", alignment |-> a,
    timestamps |-> <<>>, duration |-> 0] : a \in Alignments}
  \cup
  {[provider |-> "google", pc |-> "request", text |-> t, rate |-> r,
    chunks |-> <<>>, k |-> 0, timestamps |-> <<>>, offset |-> 0,
    duration |-> 0] : t \in Texts, r \in SpeakingRates}

TtsInit ==
  /\ InitPipeline
  /\ tts \in TtsRequests
  /\ gemini = NoGemini
  /\ pricing = NoPricing
  /\ agents = NoAgents

TtsNext ==
  \/ \E ok \in BOOLEAN : ElevenLabsGenerate(ok)
  \/ GoogleChunk
  \/ GoogleChunkSkip
  \/ \E ok \in BOOLEAN : GoogleSynthesize(ok)
  \/ GoogleReturn

TtsSpec == TtsInit /\ [][TtsNext]_vars

\* ------------------------------------------- analyze_document_with_gemini
\* One call of analyze_document_with_gemini.  What a model request gives:
\* a JSON object, a JSON object inside a code fence, text that is no JSON,
\* an empty text, a response blocked by the content policy, or an exception
\* raised by the request (for the vision path: by the file upload as well)
ResponseKinds == {"json", "fenced_json", "garbage", "empty", "blocked", "error"}

\* fewest extracted characters with which the text path is run
MinTextChars == 50

\* len(extracted_text): extract_text_from_pdf gives "" when it fails
ExtractedLens == {0, MinTextChars - 1, MinTextChars, 400}

\* the try block of the vision path returns an analysis: the request does
\* not raise, the response is not blocked, and its text parses as it is or,
\* when it is not empty, after the code fence is stripped
VisionReturns(kind) ==
  IF kind = "error" THEN FALSE
  ELSE IF kind = "blocked" THEN FALSE
  ELSE IF kind = "json" THEN TRUE
  ELSE IF kind = "empty" THEN FALSE
  ELSE kind = "fenced_json"

\* the text path returns an analysis: the request does not raise and the
\* text of the response parses as it is or after the code fence is stripped
\* (response.text of a blocked response raises)
TextReturns(kind) ==
  IF kind \in {"error", "blocked"} THEN FALSE
  ELSE IF kind = "json" THEN TRUE
  ELSE kind = "fenced_json"

\* a test of the extracted text that lets any text through
can_fallback_Always(chars) == TRUE

\* not (len(extracted_text) < 50)
can_fallback(chars) == ~(chars < MinTextChars)

\* the vision path: the document is uploaded and the model is asked; any
\* exception raised in it leads to the except clause
GeminiVision ==
  /\ gemini.pc = "vision"
  /\ gemini' = [gemini EXCEPT
                  !.calls = Append(@, "vision"),
                  !.pc = IF VisionReturns(gemini.vision) THEN "returned"
                         ELSE "except",
                  !.method = IF VisionReturns(gemini.vision) THEN "vision"
                             ELSE "none"]
  /\ UNCHANGED <<pipeline, tts, pricing, agents>>

\* the except clause: too short a text raises, otherwise the model is asked
\* with the extracted text and what fails there is raised to the caller
GeminiTextFallback ==
  /\ gemini.pc = "except"
  /\ IF ~can_fallback(gemini.chars)
       THEN gemini' = [gemini EXCEPT !.pc = "raised"]
       ELSE gemini' = [gemini EXCEPT
                         !.calls = Append(@, "text"),
                         !.pc = IF TextReturns(gemini.text) THEN "returned"
                                ELSE "raised",
                         !.method = IF TextReturns(gemini.text)
                                      THEN "text_fallback" ELSE "none"]
  /\ UNCHANGED <<pipeline, tts, pricing, agents>>

GeminiCalls ==
  [pc : {"vision"}, vision : ResponseKinds, chars : ExtractedLens,
   text : ResponseKinds, calls : {<<>>}, method : {"none"}]

GeminiInit ==
  /\ InitPipeline
  /\ tts = NoTts
  /\ gemini \in GeminiCalls
  /\ pricing = NoPricing
  /\ agents = NoAgents

GeminiNext == GeminiVision \/ GeminiTextFallback

GeminiSpec == GeminiInit /\ [][GeminiNext]_vars

\* ------------------------------------------------- cost of a spoken section
\* The provider an agent's voice names, the provider object get_provider
\* gives for it, and the cost generate_audio computes for the section.
\* names of providers a voice configuration can carry
ProviderNames == {"google", "Google", "elevenlabs", "ElevenLabs", "azure"}

\* characters of the text of a section (a section without text is skipped)
SectionChars == {1, 250, 5000}

\* str.lower() on ProviderNames
lower_name(name) ==
  IF name = "Google" THEN "google"
  ELSE IF name = "ElevenLabs" THEN "elevenlabs"
  ELSE name

\* tts_providers.get_provider: the class of the provider object
get_provider(provider_name) ==
  IF lower_name(provider_name) = "elevenlabs" THEN "ElevenLabsProvider"
  ELSE IF lower_name(provider_name) = "google" THEN "GoogleTTSProvider"
  ELSE "GoogleTTSProvider"

\* 'Studio' in voice_id
is_studio(voice_id) == \E k \in 1..Len(voice_id) : voice_id[k] = "Studio"

\* section_audio_cost of generate_audio, from tts_config.provider as the
\* agent's voice gives it
section_audio_cost(provider, voice_id, char_count) ==
  IF provider = "google"
    THEN IF is_studio(voice_id) THEN char_count * GoogleStudioRate
         ELSE char_count * GoogleRate
    ELSE char_count * ElevenLabsRate

\* one turn of the loop of generate_audio seen for its cost: the provider
\* object synthesizes the text and the cost is computed
PriceSection ==
  /\ pricing.pc = "request"
  /\ pricing' = [pricing EXCEPT
                   !.pc = "done",
                   !.synthesized_by = get_provider(pricing.provider),
                   !.cost = section_audio_cost(pricing.provider,
                                               pricing.voice_id, pricing.chars)]
  /\ UNCHANGED <<pipeline, tts, gemini, agents>>

PricingRequests ==
  [pc : {"request"}, provider : ProviderNames, voice_id : VoiceIds,
   chars : SectionChars, synthesized_by : {"none"}, cost : {0}]

PricingInit ==
  /\ InitPipeline
  /\ tts = NoTts
  /\ gemini = NoGemini
  /\ pricing \in PricingRequests
  /\ agents = NoAgents

PricingNext == PriceSection

PricingSpec == PricingInit /\ [][PricingNext]_vars

\* ------------------------------------------------------------------- agents
\* The collection 'agents' as manage_agents writes it, and the two readers
\* of an agent: the GET of manage_agents and get_agent of the stages.  An
\* agent configuration is known by where it comes from and by its voice.
\* built_in_agents of manage_agents
built_in_agents ==
  [id \in AgentIds \ {"custom-001"} |->
     IF id = "prof-classics-001" THEN <<"en", "US", "Journey", "D">>
     ELSE IF id = "dr-straightforward-001" THEN <<"en", "US", "Journey", "F">>
     ELSE IF id = "coach-motivator-001" THEN <<"en", "US", "Studio", "M">>
     ELSE <<"en", "GB", "Neural2", "D">>]

\* AGENTS of services/script-gen/agents.py
AGENTS ==
  [id \in AgentIds \ {"custom-001"} |->
     IF id = "prof-classics-001" THEN <<"en", "US", "Journey", "D">>
     ELSE IF id = "dr-straightforward-001" THEN <<"en", "US", "Neural2", "J">>
     ELSE IF id = "coach-motivator-001" THEN <<"en", "US", "Studio", "M">>
     ELSE <<"en", "GB", "Neural2", "D">>]

\* AGENTS of audio_generator/agents.py
AudioAGENTS ==
  [id \in AgentIds \ {"custom-001", "lit-reviewer-001"} |->
     IF id = "prof-classics-001" THEN <<"en", "US", "Journey", "D">>
     ELSE IF id = "dr-straightforward-001" THEN <<"en", "US", "Neural2", "J">>
     ELSE <<"en", "US", "Studio", "M">>]

\* voices a client stores for an agent
StoredVoices == {<<"custom">>, <<"en", "US", "Journey", "F">>}

\* the GET of manage_agents for one agent id: the stored document first,
\* then the built-in one, then 404
manage_agents_GET(docs, agent_id) ==
  IF docs[agent_id] # "none"
    THEN [code |-> 200, from |-> "stored", voice |-> docs[agent_id]]
  ELSE IF agent_id \in DOMAIN built_in_agents
    THEN [code |-> 200, from |-> "builtin", voice |-> built_in_agents[agent_id]]
  ELSE [code |-> 404, from |-> "none", voice |-> <<>>]

\* get_agent over the table of built-in agents of its module: the built-in
\* agent first, then the stored document, then the default agent
get_agent(table, docs, agent_id) ==
  IF agent_id \in DOMAIN table
    THEN [from |-> "builtin", voice |-> table[agent_id]]
  ELSE IF docs[agent_id] # "none"
    THEN [from |-> "stored", voice |-> docs[agent_id]]
  ELSE [from |-> "default", voice |-> table["prof-classics-001"]]

\* POST: a body without agentId, name, personality or voice is answered 400,
\* otherwise the document of the id is set to the body
AgentPost ==
  /\ \E id \in AgentIds, voice \in StoredVoices, complete \in BOOLEAN :
       agents' = IF complete THEN [agents EXCEPT ![id] = voice] ELSE agents
  /\ UNCHANGED <<pipeline, tts, gemini, pricing>>

\* DELETE: the document of the id is deleted
AgentDelete ==
  /\ \E id \in AgentIds : agents' = [agents EXCEPT ![id] = "none"]
  /\ UNCHANGED <<pipeline, tts, gemini, pricing>>

AgentNext == AgentPost \/ AgentDelete

AgentSpec == Init /\ [][AgentNext]_vars

\* ------------------------------------------------------------------ helpers
Rank(status) == CHOOSE i \in 1..Len(StageSeq) : StageSeq[i] = status

InSeq(status) == \E i \in 1..Len(StageSeq) : StageSeq[i] = status

RECURSIVE SumCost(_)
SumCost(seq) == IF seq = <<>> THEN 0 ELSE Head(seq).cost + SumCost(Tail(seq))

\* indexes of the sections of a script that have text, in script order
RECURSIVE NonEmpty(_, _)
NonEmpty(sections, k) ==
  IF k > Len(sections) THEN <<>>
  ELSE IF sections[k].text > 0 THEN <<k>> \o NonEmpty(sections, k + 1)
  ELSE NonEmpty(sections, k + 1)

\* steps that end an invocation
AnReturns == an.pc # "idle" /\ an'.pc = "idle"
ScReturns == sc.pc # "idle" /\ sc'.pc = "idle"
AuReturns == au.pc # "idle" /\ au'.pc = "idle"
\* ... with an error raised inside the body
AnRaises == an.pc = "work" /\ an'.pc = "idle"
ScRaises == ScReturns /\ ~(sc.pc = "publish" /\ queue' # queue)
AuRaises == AuReturns /\ ~(au.pc = "section" /\ au.i = Len(au.sections))

\* ------------------------------------------------------------------- claims
\* C1: every write to progress.percentage of the job is greater than or equal
\* to the value it replaces.
C1_PercentageNonDecreasing == [][job.exists => job'.pct >= job.pct]_vars

\* C2: a script stage invoked on a job without analysis artifact, or an audio
\* stage invoked on a job without script artifact, ends with status failed
\* and progress.percentage not above the value it had before the invocation.
C2_MissingPrerequisiteFailsWithoutProgress ==
  [][/\ (sc.pc = "load" /\ ~job.analysis.path /\ ScReturns)
          => (job'.status = "failed" /\ job'.pct <= sc.pct0)
     /\ (au.pc = "load" /\ ~au.path /\ AuReturns)
          => (job'.status = "failed" /\ job'.pct <= au.pct0)]_vars

\* C3: every change of the job's status moves it to a strictly later state of
\* the stage sequence or to failed.
C3_StatusAdvances ==
  [][(job.exists /\ job'.status # job.status)
       => \/ job'.status = "failed"
          \/ /\ InSeq(job.status) /\ InSeq(job'.status)
             /\ Rank(job'.status) > Rank(job.status)]_vars

\* C4: once the job's status is completed or failed, no stage invocation
\* changes it.
C4_TerminalStatus ==
  [][job.status \in {"completed", "failed"} => job'.status = job.status]_vars

\* C5: a failed publish of the next-stage trigger after a stage recorded its
\* success leaves status, progress and the sub-records as the stage wrote
\* them; the job is not moved to failed.
C5_PublishFailureOnlyLogged ==
  [][(/\ \/ (up.pc = "trigger" /\ up'.pc = "done")
         \/ (an.pc = "publish" /\ an'.pc = "idle")
         \/ (sc.pc = "publish" /\ sc'.pc = "idle")
      /\ queue' = queue)
       => /\ job'.status = job.status
          /\ job'.pct = job.pct /\ job'.step = job.step /\ job'.msg = job.msg
          /\ job'.analysis = job.analysis /\ job'.script = job.script]_vars

\* C6: when a stage that already completed on the job completes again with
\* the same external responses (it records the same sub-record) and no other
\* stage wrote the total in between, the job's total cost is what it was
\* after the first run.
C6_RerunKeepsTotalCost ==
  [][/\ (an.pc = "work" /\ an'.pc = "publish" /\ costWriter = "analysis"
           /\ job'.analysis = job.analysis) => job'.total = job.total
     /\ (sc.pc = "save" /\ sc'.pc = "publish" /\ costWriter = "script"
           /\ job'.script = job.script) => job'.total = job.total
     /\ (AuReturns /\ ~AuRaises /\ costWriter = "audio"
           /\ job'.audio = job.audio) => job'.total = job.total]_vars

C8_TotalCostIsSum ==
  (job.status = "completed" /\ invocations = 3)
    => job.total = job.analysis.cost + SumCost(store.script.sections)
                     + SumCost(job.audio.sections)

C8_Witness ==
  /\ job.status = "completed" /\ invocations = 3
  /\ Len(store.script.sections) = 3 /\ Len(job.audio.sections) >= 2
  /\ job.total > job.analysis.cost + SumCost(store.script.sections)

\* C9: when every external call succeeds and every trigger is delivered, the
\* job created by the upload eventually is completed with percentage 100.
C9_EventuallyCompleted == job.exists ~> (job.status = "completed" /\ job.pct = 100)

C9_Witness ==
  /\ job.status = "completed" /\ job.pct = 100
  /\ up.pc = "done" /\ queue = [t \in Topics |-> 0]

\* C10 (as claimed): when the audio stage completes the job, the audio
\* sub-record holds one result per section of the script, in script order.
C10_OneResultPerSection ==
  [][(AuReturns /\ ~AuRaises)
       => /\ Len(job'.audio.sections) = Len(au.sections)
          /\ \A k \in 1..Len(job'.audio.sections) :
               job'.audio.sections[k].section_id = k]_vars

\* C10 (amended): when the audio stage completes the job, the audio sub-record
\* holds one result per section of the script that has text, in script order;
\* sections without text are skipped.
C10_OneResultPerSpokenSection ==
  [][(AuReturns /\ ~AuRaises)
       => /\ job'.audio.status = "completed"
          /\ Len(job'.audio.sections) = Len(NonEmpty(au.sections, 1))
          /\ \A k \in 1..Len(job'.audio.sections) :
               job'.audio.sections[k].section_id = NonEmpty(au.sections, 1)[k]]_vars

\* a completed job whose script had three sections, the second without text
C10_Witness ==
  /\ job.status = "completed" /\ job.script.section_count = 3
  /\ Len(job.audio.sections) = 2
  /\ job.audio.sections[1].section_id = 1 /\ job.audio.sections[2].section_id = 3

\* C11 (as claimed): in every state of the job, progress.percentage lies in
\* the band of the job's status: uploaded 10, analyzing 20, analyzed 30,
\* generating_script 40..60, generating_audio 70..95, completed 100.
C11_PercentageInBand ==
  job.exists =>
    CASE job.status = "uploaded"          -> job.pct = 10
      [] job.status = "analyzing"         -> job.pct = 20
      [] job.status = "analyzed"          -> job.pct = 30
      [] job.status = "generating_script" -> job.pct \in 40..60
      [] job.status = "generating_audio"  -> job.pct \in 70..95
      [] job.status = "completed"         -> job.pct = 100
      [] OTHER                            -> TRUE

\* C12 (as claimed): in every state of the job, the status of each of the
\* sub-records analysis, script and audio is pending, completed or failed,
\* and a sub-record that has the location of its artifact (its stage has
\* succeeded) has status completed.
C12_SubRecordStatus ==
  job.exists =>
    /\ \A sub \in {job.analysis, job.script, job.audio} :
         sub.status \in {"pending", "completed", "failed"}
    /\ job.analysis.path => job.analysis.status = "completed"
    /\ job.script.path => job.script.status = "completed"
    /\ job.audio.sections # <<>> => job.audio.status = "completed"

\* C13 (as claimed): the script stage goes on to its work only if the
\* analysis sub-record is marked completed and has its location, the audio
\* stage only if the script sub-record is marked completed and has its
\* location; otherwise the invocation ends with the job failed.
C13_WorkOnlyAfterCompletedPrerequisite ==
  [][/\ (sc.pc = "load" /\ sc'.pc \in {"section", "save"})
          => (job.analysis.status = "completed" /\ job.analysis.path)
     /\ (sc.pc = "load" /\ sc'.pc = "idle") => job'.status = "failed"
     /\ (au.pc = "load" /\ au'.pc = "section")
          => (job.script.status = "completed" /\ job.script.path)
     /\ (au.pc = "load" /\ au'.pc = "idle") => job'.status = "failed"]_vars

\* C14 (as claimed): a stage invoked for a job identifier without job record
\* ends with NotFound raised to its caller, and the job record is not
\* created.
C14_UnknownJobRaisesNotFound ==
  [][(~job.exists /\ reply'.stage # "none")
       => (reply'.result = "NotFound" /\ job' = job /\ store' = store)]_vars

\* a request that fails one of the validations named by the claim
FailsValidation(req) ==
  \/ ~req.file
  \/ req.filename = <<"">>
  \/ Len(req.filename) = 1
  \/ lower(req.filename[Len(req.filename)]) # "pdf"
  \/ req.size > MAX_FILE_SIZE_BYTES
  \/ ~req.magic

\* C15: an upload request that fails a validation (no file, empty filename,
\* extension other than pdf, size over the limit, content not starting with
\* %PDF) is answered 400 at once: no document is stored, no job record is
\* created and no document-analysis trigger is emitted.
C15_InvalidUploadRejected ==
  [][(up.pc = "idle" /\ up' # up /\ up'.req # NoRequest
        /\ FailsValidation(up'.req))
       => /\ up'.pc = "idle" /\ up'.resp = "400"
          /\ store' = store /\ job' = job /\ queue' = queue]_vars

\* a file lecture.pdf of allowed size whose content does not start with %PDF
\* has been answered 400
C15_Witness ==
  /\ up.resp = "400" /\ up.req.file /\ ~up.req.magic
  /\ up.req.filename = <<"lecture", "pdf">>
  /\ up.req.size = MAX_FILE_SIZE_BYTES
  /\ ~store.pdf /\ ~job.exists /\ queue["document-analysis"] = 0

\* C16: a valid upload creates the job record with status uploaded,
\* percentage 10 and the three sub-records pending; the document-analysis
\* trigger is emitted only when the record exists; the response with the job
\* id and status processing is given after the record was created.
C16_ValidUploadCreatesJob ==
  [][/\ (up.pc = "create" /\ up'.pc = "trigger")
          => /\ ~FailsValidation(up.req) /\ ~job.exists /\ job'.exists
             /\ job'.status = "uploaded" /\ job'.pct = 10
             /\ \A sub \in {job'.analysis, job'.script, job'.audio} :
                  sub.status = "pending"
             /\ queue' = queue
     /\ (queue'["document-analysis"] > queue["document-analysis"])
          => (job.exists /\ up.pc = "trigger")
     /\ (up.pc # "done" /\ up'.pc = "done")
          => (up'.resp = "200 processing" /\ job.exists)]_vars

\* the upload returned, the job is as created and its trigger is in flight
C16_Witness ==
  /\ up.pc = "done" /\ up.resp = "200 processing"
  /\ job.status = "uploaded" /\ job.pct = 10
  /\ queue["document-analysis"] = 1

\* C17: the response of the status query has a script URL only when the
\* script sub-record has status completed, and audio URLs only when the
\* audio sub-record has status completed.
C17_UrlsOnlyWhenCompleted ==
  /\ get_job_status(job).scriptUrl => job.script.status = "completed"
  /\ get_job_status(job).audio => job.audio.status = "completed"
  /\ job.audio.status # "completed" => get_job_status(job).sections = <<>>

\* a completed job with two synthesized sections is queried: the audio URLs
\* are returned; the script has a location and no status, so no script URL
C17_Witness ==
  /\ job.status = "completed" /\ job.script.path
  /\ get_job_status(job).audio /\ Len(get_job_status(job).sections) = 2
  /\ ~get_job_status(job).scriptUrl

\* the per-character times of an alignment are non-decreasing and every
\* character starts before it ends
CharTimesOrdered(alignment) ==
  LET starts == alignment.character_start_times_seconds
      ends   == alignment.character_end_times_seconds
  IN \A i \in 1..Len(starts) :
       /\ starts[i] <= ends[i]
       /\ i < Len(starts) => (starts[i] <= starts[i + 1] /\ ends[i] <= ends[i + 1])

\* C18 (as claimed): in the result of either provider (for ElevenLabs, given
\* per-character times that are non-decreasing with start <= end), every
\* Word Timing has start <= end and the starts are non-decreasing along the
\* sequence.
C18_WordTimingsOrdered ==
  (/\ tts.pc = "done"
   /\ tts.provider = "elevenlabs" => CharTimesOrdered(tts.alignment))
    => \A k \in 1..Len(tts.timestamps) :
         /\ tts.timestamps[k].start <= tts.timestamps[k].end
         /\ k < Len(tts.timestamps)
              => tts.timestamps[k].start <= tts.timestamps[k + 1].start

\* positions at which a maximal run of characters other than the space starts
RunStarts(chars) ==
  {i \in 1..Len(chars) : chars[i] # " " /\ (i = 1 \/ chars[i - 1] = " ")}

\* the position at which the run that starts at i ends
RunEnd(chars, i) ==
  CHOOSE j \in i..Len(chars) :
    /\ \A x \in i..j : chars[x] # " "
    /\ (j = Len(chars) \/ chars[j + 1] = " ")

\* the k-th maximal run of chars
Run(chars, k) ==
  LET i == CHOOSE x \in RunStarts(chars) :
             Cardinality({y \in RunStarts(chars) : y <= x}) = k
  IN SubSeq(chars, i, RunEnd(chars, i))

\* C19: word grouping on a native alignment gives one Word Timing per maximal
\* run of characters that are not whitespace, in input order, and the end of
\* each word is at or before the start of the next.
C19_OneWordPerRun ==
  (tts.provider = "elevenlabs" /\ tts.pc = "done")
    => LET chars == tts.alignment.characters
           ts    == tts.timestamps
       IN /\ Len(ts) = Cardinality(RunStarts(chars))
          /\ \A k \in 1..Len(ts) :
               /\ ts[k].word = Run(chars, k)
               /\ k < Len(ts) => ts[k].end <= ts[k + 1].start

\* the alignment of "hi there" gives the words "hi" and "there", and "hi"
\* ends before "there" starts
C19_Witness ==
  /\ tts.provider = "elevenlabs" /\ tts.pc = "done"
  /\ tts.alignment.characters = HiThere
  /\ Len(tts.timestamps) = 2
  /\ tts.timestamps[1].word = <<"h", "i">>
  /\ tts.timestamps[2].word = <<"t", "h", "e", "r", "e">>
  /\ tts.timestamps[1].end <= tts.timestamps[2].start

\* a terminator followed by a space occurs in the text
HasTerminator(text) ==
  \E k \in 1..(Len(text) - 1) : text[k] \in Terminators /\ text[k + 1] = " "

\* C20 (as claimed): for a text longer than the ceiling of 4500 characters
\* that has sentence terminators, no chunk of the Google provider is longer
\* than the ceiling.
C20_NoChunkOverCeiling ==
  (/\ tts.provider = "google" /\ tts.pc # "request"
   /\ TextLen(clean_text(tts.text)) > LIMIT
   /\ HasTerminator(clean_text(tts.text)))
    => \A k \in 1..Len(tts.chunks) : TextLen(tts.chunks[k]) <= LIMIT

\* number of runs of the text path
TextRuns == Cardinality({k \in 1..Len(gemini.calls) : gemini.calls[k] = "text"})

\* what C28 says besides the reason of the fallback: the vision path is the
\* first, the text path runs at most once, with fewer than 50 extracted
\* characters it is not run and the call raises, and the method recorded is
\* text_fallback exactly when the text path gave the outline
FallbackOrder ==
  /\ gemini.calls # <<>> => gemini.calls[1] = "vision"
  /\ TextRuns <= 1
  /\ (gemini.pc \in {"returned", "raised"} /\ gemini.method # "vision"
        /\ gemini.chars < 50)
       => (gemini.pc = "raised" /\ TextRuns = 0)
  /\ gemini.pc = "returned"
       => /\ gemini.method \in {"vision", "text_fallback"}
          /\ gemini.method = "text_fallback"
               <=> gemini.calls[Len(gemini.calls)] = "text"

\* C28 (as claimed): analysis tries the vision path first and runs the text
\* path only when the vision response is empty, blocked or unparseable; the
\* text path runs at most once, fails without further fallback under 50
\* extracted characters, and the method is text_fallback exactly when the
\* text path produced the outline.
C28_FallbackOnlyOnBadResponse ==
  /\ FallbackOrder
  /\ TextRuns > 0 => gemini.vision \in {"empty", "blocked", "garbage"}

\* C28 (amended): the same, where the text path runs only when the vision
\* attempt failed: its upload or request raised, or its response was empty,
\* blocked or unparseable.
C28_FallbackOnFailedVision ==
  /\ FallbackOrder
  /\ TextRuns > 0 => gemini.vision \in {"error", "empty", "blocked", "garbage"}
  /\ gemini.method = "vision" => gemini.vision \in {"json", "fenced_json"}

\* a blocked vision response and exactly 50 extracted characters: the text
\* path gave the outline
C28_Witness ==
  /\ gemini.pc = "returned" /\ gemini.method = "text_fallback"
  /\ gemini.vision = "blocked" /\ gemini.chars = 50
  /\ gemini.calls = <<"vision", "text">>

RECURSIVE Concat(_)
\* the sequences of seqs one after the other
Concat(seqs) == IF seqs = <<>> THEN <<>> ELSE Head(seqs) \o Concat(Tail(seqs))

\* out is the text without some of its spaces that directly follow a
\* sentence terminator (prev is the character of the text before it)
RECURSIVE SameButTerminatorSpaces(_, _, _)
SameButTerminatorSpaces(out, text, prev) ==
  IF text = <<>> THEN out = <<>>
  ELSE \/ /\ out # <<>> /\ Head(out) = Head(text)
          /\ SameButTerminatorSpaces(Tail(out), Tail(text), Head(text))
       \/ /\ Head(text) = " " /\ prev \in Terminators
          /\ SameButTerminatorSpaces(out, Tail(text), " ")

\* C21 (as claimed): for every text, the chunks of the Google provider one
\* after the other are the cleaned text but for spaces that directly follow
\* a sentence terminator; no other character is lost, added or moved.
C21_ChunksReproduceText ==
  (tts.provider = "google" /\ tts.pc # "request")
    => SameButTerminatorSpaces(Concat(tts.chunks), clean_text(tts.text), "none")

\* C22: for a chunk of w words synthesized by the Google provider at
\* r = 150 * speaking_rate words per minute, the estimated duration of the
\* chunk is 60 * w / r, every word has the same duration, and every word
\* starts where the word before it ends.
C22_UniformEstimate ==
  [][(/\ tts.provider = "google" /\ tts.pc = "chunks" /\ tts'.pc = "chunks"
      /\ tts'.k = tts.k + 1 /\ Len(tts'.timestamps) > Len(tts.timestamps))
       => LET w   == Cardinality(RunStarts(tts.chunks[tts.k + 1]))
              new == SubSeq(tts'.timestamps, Len(tts.timestamps) + 1,
                            Len(tts'.timestamps))
              dur == tts'.offset - tts.offset
          IN /\ Len(new) = w
             /\ dur * 150 * tts.rate = 60 * 1000 * 100 * w
             /\ \A k \in 1..w : (new[k].end - new[k].start) * w = dur
             /\ \A k \in 2..w : new[k].start = new[k - 1].end]_vars

\* "w w" at speaking rate 1.25 (187.5 words per minute): 0.64 s, the second
\* word from 0.32 s
C22_Witness ==
  /\ tts.provider = "google" /\ tts.pc = "done" /\ tts.rate = 125
  /\ tts.text = <<"w", " ", "w">>
  /\ tts.duration = 640
  /\ tts.timestamps[2].start = 320 /\ tts.timestamps[2].end = 640

\* the position at which the k-th maximal run of chars starts
RunStart(chars, k) ==
  CHOOSE x \in RunStarts(chars) :
    Cardinality({y \in RunStarts(chars) : y <= x}) = k

\* the words of a result that were closed by a character of the alignment:
\* the runs that do not reach the end of the input
ClosedWords ==
  {k \in 1..Len(tts.timestamps) :
     k <= Cardinality(RunStarts(tts.alignment.characters))
     /\ RunEnd(tts.alignment.characters, RunStart(tts.alignment.characters, k))
          < Len(tts.alignment.characters)}

\* C24 (as claimed): in word grouping on a native alignment, a word closed by
\* a boundary character has the end time of that boundary character.
C24_WordEndsWithBoundary ==
  (tts.provider = "elevenlabs" /\ tts.pc = "done")
    => \A k \in ClosedWords :
         LET chars == tts.alignment.characters
             j     == RunEnd(chars, RunStart(chars, k))
         IN tts.timestamps[k].end
              = tts.alignment.character_end_times_seconds[j + 1]

\* C24 (amended): a word closed by a boundary character has the end time of
\* its own last character, the one before the boundary character.
C24_WordEndsWithItsLastCharacter ==
  (tts.provider = "elevenlabs" /\ tts.pc = "done")
    => \A k \in ClosedWords :
         LET chars == tts.alignment.characters
             j     == RunEnd(chars, RunStart(chars, k))
         IN tts.timestamps[k].end
              = tts.alignment.character_end_times_seconds[j]

\* "hi there" spoken back to back: "hi" ends when its "i" ends (0.4 s), not
\* when the space after it ends (0.6 s)
C24_Witness ==
  /\ tts.provider = "elevenlabs" /\ tts.pc = "done"
  /\ tts.alignment.characters = HiThere
  /\ tts.alignment.character_end_times_seconds[2] = 400
  /\ tts.alignment.character_end_times_seconds[3] = 600
  /\ tts.timestamps[1].word = <<"h", "i">> /\ tts.timestamps[1].end = 400

\* C25 (as claimed): in word grouping on a native alignment, a word still
\* open at the end of the input has the last character end time as its end,
\* whatever comes before it.
C25_FlushWithLastEnd ==
  (/\ tts.provider = "elevenlabs" /\ tts.pc = "done"
   /\ tts.alignment.characters # <<>>
   /\ tts.alignment.characters[Len(tts.alignment.characters)] # " ")
    => /\ tts.timestamps # <<>>
       /\ tts.timestamps[Len(tts.timestamps)].end
            = tts.alignment.character_end_times_seconds[
                Len(tts.alignment.character_end_times_seconds)]

\* estimated duration of the first k chunks, and the number of their words
RECURSIVE SumDur(_, _, _)
SumDur(chunks, k, rate) ==
  IF k = 0 THEN 0
  ELSE SumDur(chunks, k - 1, rate)
         + (Cardinality(RunStarts(chunks[k])) * 60 * 1000 * 100) \div (150 * rate)

RECURSIVE WordsUpTo(_, _)
WordsUpTo(chunks, k) ==
  IF k = 0 THEN 0
  ELSE WordsUpTo(chunks, k - 1) + Cardinality(RunStarts(chunks[k]))

\* C26: in the Google provider the first word of chunk k+1 starts at the sum
\* of the estimated durations of the chunks 1..k, and the duration of the
\* result is the sum of the estimated durations of all chunks, which is the
\* end time of the last word.
C26_OffsetsAccumulate ==
  (tts.provider = "google" /\ tts.pc \in {"chunks", "done"})
    => /\ \A j \in 1..tts.k :
            RunStarts(tts.chunks[j]) # {}
              => tts.timestamps[WordsUpTo(tts.chunks, j - 1) + 1].start
                   = SumDur(tts.chunks, j - 1, tts.rate)
       /\ tts.pc = "done"
            => /\ tts.duration = SumDur(tts.chunks, Len(tts.chunks), tts.rate)
               /\ tts.timestamps # <<>>
                    => tts.timestamps[Len(tts.timestamps)].end = tts.duration

\* two chunks of one word each at speaking rate 1.0: the second word starts
\* at 0.4 s and the result lasts 0.8 s
C26_Witness ==
  /\ tts.provider = "google" /\ tts.pc = "done" /\ tts.rate = 100
  /\ Len(tts.chunks) = 2 /\ Len(tts.timestamps) = 2
  /\ tts.timestamps[2].start = 400 /\ tts.duration = 800

\* C23 (as claimed): every stage invocation on an existing job writes the
\* status once on start, to the stage's in-progress state, and once on exit,
\* to the stage's success state or to failed, with one progress write per
\* section in between.
C23_OneStartOneExitWrite ==
  [][/\ (an.pc = "idle" /\ an'.pc # "idle") => job'.status = "analyzing"
     /\ (sc.pc = "idle" /\ sc'.pc # "idle") => job'.status = "generating_script"
     /\ (au.pc = "idle" /\ au'.pc # "idle") => job'.status = "generating_audio"
     /\ (an.pc = "work" /\ an' # an) => job'.status \in {"analyzed", "failed"}
     /\ (sc.pc \in {"load", "section"} /\ sc' # sc /\ sc'.pc # "idle")
          => job'.status = job.status
     /\ (sc.pc \in {"load", "section"} /\ ScReturns) => job'.status = "failed"
     /\ (sc.pc = "save" /\ sc' # sc)
          => job'.status \in {"generating_audio", "failed"}
     /\ (au.pc \in {"load", "section"} /\ au' # au /\ au'.pc # "idle")
          => job'.status = job.status
     /\ (au.pc \in {"load", "section"} /\ AuReturns)
          => job'.status \in {"completed", "failed"}
     /\ ((an.pc = "publish" /\ an' # an) \/ (sc.pc = "publish" /\ sc' # sc))
          => job' = job
     /\ (sc.pc = "section" /\ sc'.i = sc.i + 1)
          => (job'.msg = "writing_section"
                /\ job'.pct = 40 + (sc.i * 20) \div sc.n)
     /\ (au.pc = "section" /\ au'.i = au.i + 1)
          => (job'.msg = "synthesized_section"
                /\ job'.pct = 70 + ((au.i + 1) * 25) \div Len(au.sections))]_vars

\* C27: when synthesis of a section fails, the audio stage ends at once: no
\* later section is synthesized, the job is failed, and the audio sub-record
\* is left as it was; the audio sub-record is marked completed only at the
\* end of a loop in which every section with text was synthesized.
C27_SynthesisFailureIsFatal ==
  [][/\ (au.pc = "section" /\ AuRaises)
          => /\ job'.status = "failed" /\ job'.msg = "audio_failed"
             /\ job'.audio = job.audio
             /\ au' = IdleAu
             /\ store' = store /\ queue' = queue
     /\ (job'.audio # job.audio /\ job'.audio.status = "completed")
          => /\ au.pc = "section" /\ au.i = Len(au.sections)
             /\ Len(au.results) = Len(NonEmpty(au.sections, 1))]_vars

\* synthesis failed after a section had been synthesized: the job is failed
\* and its audio sub-record is still pending
C27_Witness ==
  /\ job.status = "failed" /\ job.msg = "audio_failed" /\ job.pct > 70
  /\ job.audio.status = "pending" /\ job.audio.sections = <<>>
  /\ au.pc = "idle"

\* C29: when the model call of a section fails in the script stage, the stage
\* ends at once without fallback: no further model call, no script location
\* in the job record, no script stored, no audio-generation trigger, and the
\* job is failed.
C29_ScriptModelFailureIsFatal ==
  [][(sc.pc = "section" /\ ScReturns)
       => /\ job'.status = "failed"
          /\ job'.script = job.script
          /\ store' = store
          /\ queue' = queue
          /\ sc' = IdleSc]_vars

\* the model call of the second of three sections failed on a job that had
\* no script: there is none now and no audio trigger
C29_Witness ==
  /\ job.status = "failed" /\ job.msg = "script_failed" /\ job.pct = 46
  /\ ~job.script.path /\ ~store.script.present
  /\ queue["audio-generation"] = 0 /\ sc.pc = "idle" /\ au.pc = "idle"

\* C30: the script written by the script stage has one section per section
\* of the outline, in outline order; the sections are generated one after
\* another, the prompt of section i+1 carries the last 200 characters of the
\* text generated for section i, and the first prompt carries no context.
C30_OneScriptSectionPerOutlineSection ==
  [][/\ (sc.pc = "section" /\ sc' # sc /\ sc'.pc # "idle")
          => /\ sc'.i = sc.i + 1
             /\ Len(sc'.full) = sc'.i /\ Len(sc'.prompts) = sc'.i
             /\ SubSeq(sc'.full, 1, sc.i) = sc.full
             /\ SubSeq(sc'.prompts, 1, sc.i) = sc.prompts
             /\ sc'.full[sc'.i].title = sc'.i
             /\ sc'.prompts[sc'.i]
                  = IF sc.i = 0 THEN 0
                    ELSE IF sc.full[sc.i].text < 200 THEN sc.full[sc.i].text
                    ELSE 200
     /\ (sc.pc = "save" /\ sc'.pc = "publish")
          => /\ store'.script.present
             /\ Len(store'.script.sections) = sc.n
             /\ \A k \in 1..sc.n : store'.script.sections[k].title = k]_vars

\* a script of three sections is written; the second prompt carried the last
\* 200 of the 250 characters of the first section, the third prompt nothing,
\* the second section being empty
C30_Witness ==
  /\ sc.pc = "publish" /\ sc.n = 3
  /\ sc.prompts = <<0, 200, 0>>
  /\ Len(store.script.sections) = 3
  /\ store.script.sections[1].text = 250 /\ store.script.sections[2].text = 0

C32_SubRecordsOwnedByStage ==
  [][job.exists
       => /\ job'.pdf = job.pdf
          /\ an' # an => (job'.script = job.script /\ job'.audio = job.audio)
          /\ sc' # sc => (job'.analysis = job.analysis /\ job'.audio = job.audio)
          /\ au' # au => (job'.analysis = job.analysis /\ job'.script = job.script)
          /\ job'.analysis # job.analysis => an' # an
          /\ job'.script # job.script => sc' # sc
          /\ job'.audio # job.audio => au' # au]_vars

\* every stage has written its sub-record
C32_Witness ==
  /\ job.status = "completed" /\ job.pdf = "stored"
  /\ job.analysis.status = "completed" /\ job.analysis.section_count = 2
  /\ job.script.path /\ job.script.section_count = 2
  /\ job.audio.status = "completed" /\ Len(job.audio.sections) = 2

\* C33 (as claimed): once a script is stored, running the script stage again
\* leaves the content stored at its location unchanged.
C33_ScriptImmutable ==
  [][store.script.present => store'.script = store.script]_vars

\* a stage is running: it is past the check of its prerequisite (the
\* analyzer has none)
AnRunning == an.pc \in {"work", "publish"}
ScRunning == sc.pc \in {"section", "save", "publish"}
AuRunning == au.pc = "section"

\* C34 (as claimed): no two stages of the job are running at the same time.
C34_OneStageAtATime ==
  /\ ~(AnRunning /\ ScRunning)
  /\ ~(AnRunning /\ AuRunning)
  /\ ~(ScRunning /\ AuRunning)

\* C35 (as claimed): the job record never shows the status of a stage in
\* progress together with the finished sub-record of a later stage.
C35_NoMidStageWithLaterResult ==
  job.exists =>
    /\ job.status = "analyzing"
         => (~job.script.path /\ job.audio.status # "completed")
    /\ job.status = "generating_script" => job.audio.status # "completed"

\* C37 (as claimed): for a completed job the response of the status query
\* has the script URL and the audio entry with one item per synthesized
\* section.
C37_CompletedJobHasUrls ==
  job.status = "completed"
    => /\ get_job_status(job).scriptUrl
       /\ get_job_status(job).audio
       /\ Len(get_job_status(job).sections) = Len(job.audio.sections)

\* C38 (as claimed): in every state of the job record progress.current_step
\* equals status.
C38_StepEqualsStatus == job.exists => job.step = job.status

\* C36 (as claimed): the cost of a section is its character count times the
\* rate of the provider that synthesized it and of its voice tier (Google
\* Studio voices, other Google voices, ElevenLabs), for every provider name.
C36_CostOfSynthesizingProvider ==
  pricing.pc = "done"
    => pricing.cost
         = pricing.chars
             * (IF pricing.synthesized_by = "ElevenLabsProvider" THEN 2000
                ELSE IF is_studio(pricing.voice_id) THEN 1600
                ELSE 300)

\* C39 (as claimed): the word timings of the Google provider are the
\* whitespace-separated words of the cleaned text, one entry each, in order,
\* for a text of at most LIMIT characters and for a longer one.
C39_OneTimingPerWord ==
  (tts.provider = "google" /\ tts.pc = "done")
    => [k \in 1..Len(tts.timestamps) |-> tts.timestamps[k].word]
         = split(clean_text(tts.text))

\* C40 (as claimed): after any sequence of POST and DELETE, for every agent
\* id the configuration the GET of manage_agents returns is the one get_agent
\* resolves, in the script stage and in the audio stage; a stored agent with
\* the id of a built-in one overrides it in both.
C40_GetAgreesWithGetAgent ==
  \A id \in AgentIds :
    LET r == manage_agents_GET(agents, id)
    IN r.code = 200 =>
       \A table \in {AGENTS, AudioAGENTS} :
            /\ get_agent(table, agents, id).from = r.from
            /\ get_agent(table, agents, id).voice = r.voice

====
